---- MODULE Spec2Model ----
(***************************************************************************)
(* Model of the HD44780 controller of src/lib.rs: the two constructors     *)
(* with their initialization sequences, the public command API and the     *)
(* write operations, over the DataBus capability of src/bus/mod.rs.        *)
(*                                                                         *)
(* Every async fn is a straight sequence of suspension points: a           *)
(* bus.write(byte, data).await? or a Timer::after(d).await.  The model     *)
(* keeps the sequence still to run in fut and takes one step per           *)
(* suspension point; log records what the bus and the timer were asked     *)
(* to do during the call in flight (or the last call made).                *)
(***************************************************************************)
EXTENDS Integers, Sequences, FiniteSets, TLC

\* ---------------------------------------------------------------- bounds
\* Longest byte slice / string handed to write_bytes / write_str.
MaxLen == 2

\* Inputs the callers draw from.
ByteVals == {65, 66, 48}            \* b'A', b'B', b'0' (0x30)
Chars == {65, 66, 233}              \* 'A', 'B', U+00E9: what strings are made of
WideChars == Chars \cup {8364}      \* and U+20AC, for write_char
Positions == {0, 72, 200}
Bools == {TRUE, FALSE}

\* ----------------------------------------------------------- bit helpers
RECURSIVE BitOr(_, _)
BitOr(a, b) ==
    IF a = 0 THEN b
    ELSE IF b = 0 THEN a
    ELSE (IF a % 2 = 1 \/ b % 2 = 1 THEN 1 ELSE 0) + 2 * BitOr(a \div 2, b \div 2)

RECURSIVE BitAnd(_, _)
BitAnd(a, b) ==
    IF a = 0 \/ b = 0 THEN 0
    ELSE (IF a % 2 = 1 /\ b % 2 = 1 THEN 1 ELSE 0) + 2 * BitAnd(a \div 2, b \div 2)

\* `x as u8`
as_u8(x) == x % 256

\* ------------------------------------------------------------ enum types
Direction == {"Left", "Right"}
Display == {"On", "Off"}
Cursor == {"Visible", "Invisible"}
CursorBlink == {"On", "Off"}
CursorMode == {"Left", "Right"}
ShiftMode == {"Enabled", "Disabled"}

EntryMode == [cursor_mode : CursorMode, shift_mode : ShiftMode]
DisplayMode == [display : Display, cursor_visibility : Cursor, cursor_blink : CursorBlink]

\* entry_mode.rs and display_mode.rs (declared at lib.rs:17 and lib.rs:21).
EntryMode_default == [cursor_mode |-> "Right", shift_mode |-> "Disabled"]

DisplayMode_default ==
    [display |-> "On", cursor_visibility |-> "Visible", cursor_blink |-> "On"]

\* bool -> ShiftMode, the `enabled.into()` of set_autoscroll
ShiftMode_from(enabled) == IF enabled THEN "Enabled" ELSE "Disabled"

\* Entry mode set: 0b0000_01(I/D)(S)
EntryMode_as_byte(em) ==
    BitOr(BitOr(4, IF em.cursor_mode = "Right" THEN 2 ELSE 0),
          IF em.shift_mode = "Enabled" THEN 1 ELSE 0)

\* Display on/off control: 0b0000_1(D)(C)(B)
DisplayMode_as_byte(dm) ==
    BitOr(BitOr(BitOr(8, IF dm.cursor_blink = "On" THEN 1 ELSE 0),
                IF dm.cursor_visibility = "Visible" THEN 2 ELSE 0),
          IF dm.display = "On" THEN 4 ELSE 0)

\* ------------------------------------------------- durations, in microseconds
from_millis(n) == n * 1000
from_us(n) == n

\* ------------------------------------------------------ suspension points
\* self.bus.write(byte, data).await?
BusWrite(byte, data) == [k |-> "write", byte |-> byte, data |-> data]
\* Timer::after(d).await
TimerAfter(d) == [k |-> "delay", us |-> d]

\* What the log records of each.
Sent(step, ok) == [k |-> "write", byte |-> step.byte, data |-> step.data, ok |-> ok]
Waited(step) == [k |-> "delay", us |-> step.us]
NoEvent == [k |-> "none"]

\* The writes the bus completed and the waits the timer completed.
IsDone(e) == IF e.k = "write" THEN e.ok ELSE TRUE
Completed(events) == SelectSeq(events, IsDone)
Last(events) == events[Len(events)]

\* str::as_bytes: the UTF-8 encoding of a sequence of code points
utf8(c) ==
    IF c < 128 THEN <<c>>
    ELSE IF c < 2048 THEN <<192 + (c \div 64), 128 + (c % 64)>>
    ELSE IF c < 65536 THEN
        <<224 + (c \div 4096), 128 + ((c \div 64) % 64), 128 + (c % 64)>>
    ELSE <<240 + (c \div 262144), 128 + ((c \div 4096) % 64),
           128 + ((c \div 64) % 64), 128 + (c % 64)>>

RECURSIVE as_bytes(_)
as_bytes(string) ==
    IF string = <<>> THEN <<>> ELSE utf8(Head(string)) \o as_bytes(Tail(string))

\* ------------------------------------------------------- private async fns
\* write_command that returns without waiting for the command to settle
write_command_nowait(cmd) ==
    << BusWrite(cmd, FALSE) >>

write_command(cmd) ==
    << BusWrite(cmd, FALSE), TimerAfter(from_us(100)) >>

write_byte_fut(data) ==
    << BusWrite(data, TRUE), TimerAfter(from_us(100)) >>

\* write_bytes that walks the slice from its end
RECURSIVE write_bytes_rev(_)
write_bytes_rev(string) ==
    IF string = <<>> THEN <<>>
    ELSE write_bytes_rev(Tail(string)) \o write_byte_fut(Head(string))

RECURSIVE write_bytes_fut(_)
write_bytes_fut(string) ==
    IF string = <<>> THEN <<>>
    ELSE write_byte_fut(Head(string)) \o write_bytes_fut(Tail(string))

\* init_4bit that stops after the entry mode, without the closing 0x80
init_4bit_no0x80(self_entry_mode) ==
    << TimerAfter(from_millis(15)), BusWrite(51, FALSE),
       TimerAfter(from_millis(5)), BusWrite(50, FALSE),
       TimerAfter(from_us(100)), BusWrite(40, FALSE),
       TimerAfter(from_us(100)), BusWrite(14, FALSE),
       TimerAfter(from_us(100)), BusWrite(1, FALSE),
       TimerAfter(from_us(100)), BusWrite(EntryMode_as_byte(self_entry_mode), FALSE),
       TimerAfter(from_us(100)) >>

\* init_4bit that waits 100 us where the source waits 5 ms
init_4bit_shortwait(self_entry_mode) ==
    << TimerAfter(from_millis(15)), BusWrite(51, FALSE),
       TimerAfter(from_us(100)), BusWrite(50, FALSE),
       TimerAfter(from_us(100)), BusWrite(40, FALSE),
       TimerAfter(from_us(100)), BusWrite(14, FALSE),
       TimerAfter(from_us(100)), BusWrite(1, FALSE),
       TimerAfter(from_us(100)), BusWrite(EntryMode_as_byte(self_entry_mode), FALSE),
       TimerAfter(from_us(100)), BusWrite(128, FALSE),
       TimerAfter(from_us(100)) >>

init_4bit(self_entry_mode) ==
    << TimerAfter(from_millis(15)),
       BusWrite(51, FALSE),                  \* 0x33
       TimerAfter(from_millis(5)),
       BusWrite(50, FALSE),                  \* 0x32
       TimerAfter(from_us(100)),
       BusWrite(40, FALSE),                  \* 0x28
       TimerAfter(from_us(100)),
       BusWrite(14, FALSE),                  \* 0x0E
       TimerAfter(from_us(100)),
       BusWrite(1, FALSE),                   \* 0x01
       TimerAfter(from_us(100)),
       BusWrite(EntryMode_as_byte(self_entry_mode), FALSE),
       TimerAfter(from_us(100)),
       BusWrite(128, FALSE),                 \* 0x80
       TimerAfter(from_us(100)) >>

\* init_8bit that sends 0x0E before 0x38
init_8bit_swapped(self_entry_mode) ==
    << TimerAfter(from_millis(15)), BusWrite(48, FALSE),
       TimerAfter(from_millis(5)), BusWrite(14, FALSE),
       TimerAfter(from_us(100)), BusWrite(56, FALSE),
       TimerAfter(from_us(100)), BusWrite(1, FALSE),
       TimerAfter(from_us(100)), BusWrite(7, FALSE),
       TimerAfter(from_us(100)), BusWrite(EntryMode_as_byte(self_entry_mode), FALSE),
       TimerAfter(from_us(100)) >>

\* init_8bit that stops after 0x07, without the entry mode
init_8bit_five(self_entry_mode) ==
    << TimerAfter(from_millis(15)), BusWrite(48, FALSE),
       TimerAfter(from_millis(5)), BusWrite(56, FALSE),
       TimerAfter(from_us(100)), BusWrite(14, FALSE),
       TimerAfter(from_us(100)), BusWrite(1, FALSE),
       TimerAfter(from_us(100)), BusWrite(7, FALSE),
       TimerAfter(from_us(100)) >>

init_8bit(self_entry_mode) ==
    << TimerAfter(from_millis(15)),
       BusWrite(48, FALSE),                  \* 0b0011_0000
       TimerAfter(from_millis(5)),
       BusWrite(56, FALSE),                  \* 0b0011_1000
       TimerAfter(from_us(100)),
       BusWrite(14, FALSE),                  \* 0b0000_1110
       TimerAfter(from_us(100)),
       BusWrite(1, FALSE),                   \* 0b0000_0001
       TimerAfter(from_us(100)),
       BusWrite(7, FALSE),                   \* 0b000_0111
       TimerAfter(from_us(100)),
       BusWrite(EntryMode_as_byte(self_entry_mode), FALSE),
       TimerAfter(from_us(100)) >>

\* ------------------------------------------------------------------ state
VARIABLES
    status,        \* "none" | "constructing" | "ready" | "dropped": the HD44780 value
    bus,           \* "none" | "EightBitBus" | "FourBitBus"
    entry_mode,    \* self.entry_mode
    display_mode,  \* self.display_mode
    fut,           \* suspension points the call in flight has still to pass
    op,            \* the call in flight, or the last one made: [name, arg]
    ret,           \* "none" | "pending" | "Ok" | "Err": what that call returned
    log,           \* bus writes and timer waits of that call, in order
    prev,          \* the last completed bus write or timer wait before that call
    sent           \* the mode encodings last written, as SpecModes records them

vars == <<status, bus, entry_mode, display_mode, fut, op, ret, log, prev, sent>>

\* Nothing recorded: no encoding of either mode has been written (0 encodes
\* neither), and no write of one has failed.
NoneSent == [entry |-> 0, entry_ok |-> TRUE, display |-> 0, display_ok |-> TRUE]

Init ==
    /\ status = "none"
    /\ bus = "none"
    /\ entry_mode = EntryMode_default
    /\ display_mode = DisplayMode_default
    /\ fut = <<>>
    /\ op = [name |-> "none", arg |-> <<>>]
    /\ ret = "none"
    /\ log = <<>>
    /\ prev = NoEvent
    /\ sent = NoneSent

\* A call starts: the future is created and polled up to its first
\* suspension point; with nothing to await it returns Ok(()) at once.
Begin(name, arg, steps) ==
    /\ op' = [name |-> name, arg |-> arg]
    /\ fut' = steps
    /\ ret' = IF steps = <<>> THEN "Ok" ELSE "pending"
    /\ prev' = IF Completed(log) = <<>> THEN prev ELSE Last(Completed(log))
    /\ log' = <<>>
    /\ sent' = sent

\* ----------------------------------------------------------- constructors
new_8bit ==
    /\ status = "none"
    /\ status' = "constructing"
    /\ bus' = "EightBitBus"
    /\ entry_mode' = EntryMode_default
    /\ display_mode' = DisplayMode_default
    /\ Begin("new_8bit", <<>>, init_8bit(entry_mode'))

\* new_4bit that hands hd back without running init_4bit
new_4bit_noinit ==
    /\ status = "none"
    /\ status' = "ready"
    /\ bus' = "FourBitBus"
    /\ entry_mode' = EntryMode_default
    /\ display_mode' = DisplayMode_default
    /\ Begin("new_4bit", <<>>, <<>>)

new_4bit ==
    /\ status = "none"
    /\ status' = "constructing"
    /\ bus' = "FourBitBus"
    /\ entry_mode' = EntryMode_default
    /\ display_mode' = DisplayMode_default
    /\ Begin("new_4bit", <<>>, init_4bit(entry_mode'))

\* ------------------------------------------------------ public operations
\* &mut self: a call is made on a controller a constructor returned, and
\* only when no other call is in flight.
Idle == status = "ready" /\ ret # "pending"

\* Byte slices and strings the callers pass.
ByteStrings == UNION {[1..n -> ByteVals] : n \in 0..MaxLen}
Strings == UNION {[1..n -> Chars] : n \in 0..MaxLen}

\* reset that runs the 8-bit initialization again
reset_reinit ==
    /\ Idle
    /\ Begin("reset", <<>>, init_8bit(entry_mode))
    /\ UNCHANGED <<status, bus, entry_mode, display_mode>>

reset ==
    /\ Idle
    /\ Begin("reset", <<>>, write_command(2))
    /\ UNCHANGED <<status, bus, entry_mode, display_mode>>

set_display_mode(mode) ==
    /\ Idle
    /\ display_mode' = mode
    /\ Begin("set_display_mode", mode, write_command(DisplayMode_as_byte(display_mode')))
    /\ UNCHANGED <<status, bus, entry_mode>>

\* clear that sends the return-home byte
clear_home ==
    /\ Idle
    /\ Begin("clear", <<>>, write_command(2))
    /\ UNCHANGED <<status, bus, entry_mode, display_mode>>

clear ==
    /\ Idle
    /\ Begin("clear", <<>>, write_command(1))
    /\ UNCHANGED <<status, bus, entry_mode, display_mode>>

\* set_autoscroll that encodes the entry mode before storing the field
set_autoscroll_stale(enabled) ==
    /\ Idle
    /\ entry_mode' = [entry_mode EXCEPT !.shift_mode = ShiftMode_from(enabled)]
    /\ Begin("set_autoscroll", enabled, write_command(EntryMode_as_byte(entry_mode)))
    /\ UNCHANGED <<status, bus, display_mode>>

set_autoscroll(enabled) ==
    /\ Idle
    /\ entry_mode' = [entry_mode EXCEPT !.shift_mode = ShiftMode_from(enabled)]
    /\ Begin("set_autoscroll", enabled, write_command(EntryMode_as_byte(entry_mode')))
    /\ UNCHANGED <<status, bus, display_mode>>

set_cursor_visibility(visibility) ==
    /\ Idle
    /\ display_mode' = [display_mode EXCEPT !.cursor_visibility = visibility]
    /\ Begin("set_cursor_visibility", visibility,
             write_command(DisplayMode_as_byte(display_mode')))
    /\ UNCHANGED <<status, bus, entry_mode>>

set_display(display) ==
    /\ Idle
    /\ display_mode' = [display_mode EXCEPT !.display = display]
    /\ Begin("set_display", display, write_command(DisplayMode_as_byte(display_mode')))
    /\ UNCHANGED <<status, bus, entry_mode>>

\* set_cursor_blink that encodes the display mode before storing the field
set_cursor_blink_stale(blink) ==
    /\ Idle
    /\ display_mode' = [display_mode EXCEPT !.cursor_blink = blink]
    /\ Begin("set_cursor_blink", blink, write_command(DisplayMode_as_byte(display_mode)))
    /\ UNCHANGED <<status, bus, entry_mode>>

set_cursor_blink(blink) ==
    /\ Idle
    /\ display_mode' = [display_mode EXCEPT !.cursor_blink = blink]
    /\ Begin("set_cursor_blink", blink, write_command(DisplayMode_as_byte(display_mode')))
    /\ UNCHANGED <<status, bus, entry_mode>>

\* set_cursor_mode that rebuilds the entry mode from its default
set_cursor_mode_rebuilt(mode) ==
    /\ Idle
    /\ entry_mode' = [EntryMode_default EXCEPT !.cursor_mode = mode]
    /\ Begin("set_cursor_mode", mode, write_command(EntryMode_as_byte(entry_mode')))
    /\ UNCHANGED <<status, bus, display_mode>>

set_cursor_mode(mode) ==
    /\ Idle
    /\ entry_mode' = [entry_mode EXCEPT !.cursor_mode = mode]
    /\ Begin("set_cursor_mode", mode, write_command(EntryMode_as_byte(entry_mode')))
    /\ UNCHANGED <<status, bus, display_mode>>

\* set_cursor_pos that forgets the set-DDRAM-address bit
set_cursor_pos_noopcode(position) ==
    /\ Idle
    /\ LET lower_7_bits == BitAnd(127, position)
       IN  Begin("set_cursor_pos", position, write_command(lower_7_bits))
    /\ UNCHANGED <<status, bus, entry_mode, display_mode>>

set_cursor_pos(position) ==
    /\ Idle
    /\ LET lower_7_bits == BitAnd(127, position)
       IN  Begin("set_cursor_pos", position, write_command(BitOr(128, lower_7_bits)))
    /\ UNCHANGED <<status, bus, entry_mode, display_mode>>

shift_cursor(dir) ==
    /\ Idle
    /\ LET bits == IF dir = "Left" THEN 0 ELSE 4
       IN  Begin("shift_cursor", dir, write_command(BitOr(BitOr(16, bits), bits)))
    /\ UNCHANGED <<status, bus, entry_mode, display_mode>>

\* shift_display that sends the cursor-shift opcode
shift_display_cursor(dir) ==
    /\ Idle
    /\ LET bits == IF dir = "Left" THEN 0 ELSE 4
       IN  Begin("shift_display", dir, write_command(BitOr(16, bits)))
    /\ UNCHANGED <<status, bus, entry_mode, display_mode>>

shift_display(dir) ==
    /\ Idle
    /\ LET bits == IF dir = "Left" THEN 0 ELSE 4
       IN  Begin("shift_display", dir, write_command(BitOr(24, bits)))
    /\ UNCHANGED <<status, bus, entry_mode, display_mode>>

\* write_char that sends the UTF-8 bytes of the character
write_char_utf8(data) ==
    /\ Idle
    /\ Begin("write_char", data, write_bytes_fut(utf8(data)))
    /\ UNCHANGED <<status, bus, entry_mode, display_mode>>

write_char(data) ==
    /\ Idle
    /\ Begin("write_char", data, write_byte_fut(as_u8(data)))
    /\ UNCHANGED <<status, bus, entry_mode, display_mode>>

write_str(string) ==
    /\ Idle
    /\ Begin("write_str", string, write_bytes_fut(as_bytes(string)))
    /\ UNCHANGED <<status, bus, entry_mode, display_mode>>

write_bytes(string) ==
    /\ Idle
    /\ Begin("write_bytes", string, write_bytes_fut(string))
    /\ UNCHANGED <<status, bus, entry_mode, display_mode>>

write_byte(data) ==
    /\ Idle
    /\ Begin("write_byte", data, write_byte_fut(data))
    /\ UNCHANGED <<status, bus, entry_mode, display_mode>>

\* ------------------------------------------------------- suspension steps
\* What the caller gets when the last suspension point has been passed:
\* the constructor hands back Ok(hd), any other call Ok(()).
Finish(rest) ==
    /\ fut' = rest
    /\ ret' = IF rest = <<>> THEN "Ok" ELSE "pending"
    /\ status' = IF rest = <<>> /\ status = "constructing" THEN "ready" ELSE status

\* bus.write(..).await resolves to Ok(())
BusWriteOk ==
    /\ fut # <<>>
    /\ Head(fut).k = "write"
    /\ log' = Append(log, Sent(Head(fut), TRUE))
    /\ Finish(Tail(fut))
    /\ UNCHANGED <<bus, entry_mode, display_mode, op, prev, sent>>

\* A failed bus.write whose error is dropped instead of returned
BusWriteErr_ignored ==
    /\ fut # <<>>
    /\ Head(fut).k = "write"
    /\ log' = Append(log, Sent(Head(fut), FALSE))
    /\ Finish(Tail(fut))
    /\ UNCHANGED <<bus, entry_mode, display_mode, op, prev, sent>>

\* A failed bus.write that is tried again
BusWriteErr_retry ==
    /\ fut # <<>>
    /\ Head(fut).k = "write"
    /\ log' = Append(log, Sent(Head(fut), FALSE))
    /\ UNCHANGED <<fut, ret, status, bus, entry_mode, display_mode, op, prev, sent>>

\* bus.write(..).await resolves to Err(_): `?` returns it from every
\* enclosing async fn; a constructor drops hd instead of returning it.
BusWriteErr ==
    /\ fut # <<>>
    /\ Head(fut).k = "write"
    /\ log' = Append(log, Sent(Head(fut), FALSE))
    /\ fut' = <<>>
    /\ ret' = "Err"
    /\ status' = IF status = "constructing" THEN "dropped" ELSE status
    /\ UNCHANGED <<bus, entry_mode, display_mode, op, prev, sent>>

\* Timer::after(..).await completes
TimerFired ==
    /\ fut # <<>>
    /\ Head(fut).k = "delay"
    /\ log' = Append(log, Waited(Head(fut)))
    /\ Finish(Tail(fut))
    /\ UNCHANGED <<bus, entry_mode, display_mode, op, prev, sent>>

Next ==
    \/ new_8bit
    \/ new_4bit
    \/ reset
    \/ \E mode \in DisplayMode : set_display_mode(mode)
    \/ clear
    \/ \E enabled \in Bools : set_autoscroll(enabled)
    \/ \E visibility \in Cursor : set_cursor_visibility(visibility)
    \/ \E display \in Display : set_display(display)
    \/ \E blink \in CursorBlink : set_cursor_blink(blink)
    \/ \E mode \in CursorMode : set_cursor_mode(mode)
    \/ \E position \in Positions : set_cursor_pos(position)
    \/ \E dir \in Direction : shift_cursor(dir)
    \/ \E dir \in Direction : shift_display(dir)
    \/ \E data \in WideChars : write_char(data)
    \/ \E string \in Strings : write_str(string)
    \/ \E string \in ByteStrings : write_bytes(string)
    \/ \E data \in ByteVals : write_byte(data)
    \/ BusWriteOk
    \/ BusWriteErr
    \/ TimerFired

Spec == Init /\ [][Next]_vars

\* The controller driven by a caller that only moves the cursor, to every
\* position a u8 can hold.
AllPositions == 0..255

NextPos ==
    \/ new_8bit
    \/ new_4bit
    \/ \E position \in AllPositions : set_cursor_pos(position)
    \/ BusWriteOk
    \/ BusWriteErr
    \/ TimerFired

SpecPos == Init /\ [][NextPos]_vars

\* ------------------------------------------- the modes as last written
\* The methods that store into self.entry_mode / self.display_mode.
EntryMutators == {"set_autoscroll", "set_cursor_mode"}
DisplayMutators ==
    {"set_display_mode", "set_cursor_visibility", "set_display", "set_cursor_blink"}

\* The write at the head of fut carries self.entry_mode.as_byte(): a
\* mutator's write_command, or the "Set entry mode" write of init.
WritesEntryMode ==
    \/ op.name \in EntryMutators
    \/ /\ op.name \in {"new_8bit", "new_4bit"}
       /\ Head(fut) = BusWrite(EntryMode_as_byte(entry_mode), FALSE)

\* It carries self.display_mode.as_byte().
WritesDisplayMode == op.name \in DisplayMutators

\* sent after the write at the head of fut succeeded (ok) or failed.
Observe(ok) ==
    sent' = IF WritesEntryMode
            THEN [sent EXCEPT !.entry = IF ok THEN Head(fut).byte ELSE @, !.entry_ok = ok]
            ELSE IF WritesDisplayMode
            THEN [sent EXCEPT !.display = IF ok THEN Head(fut).byte ELSE @, !.display_ok = ok]
            ELSE sent

\* BusWriteOk, recording what was written
BusWriteOkSeen ==
    /\ fut # <<>>
    /\ Head(fut).k = "write"
    /\ log' = Append(log, Sent(Head(fut), TRUE))
    /\ Finish(Tail(fut))
    /\ Observe(TRUE)
    /\ UNCHANGED <<bus, entry_mode, display_mode, op, prev>>

\* BusWriteErr, recording that the write failed
BusWriteErrSeen ==
    /\ fut # <<>>
    /\ Head(fut).k = "write"
    /\ log' = Append(log, Sent(Head(fut), FALSE))
    /\ fut' = <<>>
    /\ ret' = "Err"
    /\ status' = IF status = "constructing" THEN "dropped" ELSE status
    /\ Observe(FALSE)
    /\ UNCHANGED <<bus, entry_mode, display_mode, op, prev>>

\* The controller driven by a caller that sets modes, clears, homes,
\* shifts and writes single bytes.
NextModes ==
    \/ new_8bit
    \/ new_4bit
    \/ reset
    \/ \E mode \in DisplayMode : set_display_mode(mode)
    \/ clear
    \/ \E enabled \in Bools : set_autoscroll(enabled)
    \/ \E visibility \in Cursor : set_cursor_visibility(visibility)
    \/ \E display \in Display : set_display(display)
    \/ \E blink \in CursorBlink : set_cursor_blink(blink)
    \/ \E mode \in CursorMode : set_cursor_mode(mode)
    \/ \E dir \in Direction : shift_cursor(dir)
    \/ \E dir \in Direction : shift_display(dir)
    \/ \E data \in ByteVals : write_byte(data)
    \/ BusWriteOkSeen
    \/ BusWriteErrSeen
    \/ TimerFired

SpecModes == Init /\ [][NextModes]_vars

\* ------------------------------------------------------- the two buses
\* bus/eightbit.rs and bus/fourbit.rs (declared at bus/mod.rs:3-4): what
\* one DataBus::write does to the pins.  Spec takes a write as one step
\* that succeeds or fails; SpecBus follows a single write pin by pin.
AllBytes == 0..255

\* pin.set_high()? / pin.set_low()?
SetPin(pin, level) == [k |-> "pin", pin |-> pin, level |-> level]
PinEvent(step, ok) == [k |-> "pin", pin |-> step.pin, level |-> step.level, ok |-> ok]

\* The data pin of line i.
D(i) == << "d0", "d1", "d2", "d3", "d4", "d5", "d6", "d7" >>[i + 1]

\* 2^i
RECURSIVE Pow2(_)
Pow2(i) == IF i = 0 THEN 1 ELSE 2 * Pow2(i - 1)

\* bit i of byte is set
Bit(byte, i) == BitAnd(byte, Pow2(i)) # 0

\* Enable set active, then inactive
PulseEnable == << SetPin("en", TRUE), SetPin("en", FALSE) >>

\* An eight-bit write whose data pins are wired in reverse
EightBitBus_write_reversed(byte, data) ==
    << SetPin("rs", data) >>
    \o [i \in 1..8 |-> SetPin(D(8 - i), Bit(byte, i - 1))]
    \o PulseEnable

EightBitBus_write(byte, data) ==
    << SetPin("rs", data) >>
    \o [i \in 1..8 |-> SetPin(D(i - 1), Bit(byte, i - 1))]
    \o PulseEnable

\* The four data pins D4..D7 carry bits 0..3 of nibble
write_nibble(nibble) == [i \in 1..4 |-> SetPin(D(i + 3), Bit(nibble, i - 1))]

\* A four-bit write that sends the low nibble first
FourBitBus_write_lowfirst(byte, data) ==
    << SetPin("rs", data) >>
    \o write_nibble(byte % 16) \o PulseEnable
    \o write_nibble(byte \div 16) \o PulseEnable

FourBitBus_write(byte, data) ==
    << SetPin("rs", data) >>
    \o write_nibble(byte \div 16) \o PulseEnable
    \o write_nibble(byte % 16) \o PulseEnable

\* A bus built from its pins, not yet written to.
InitBus ==
    /\ status = "none"
    /\ bus \in {"EightBitBus", "FourBitBus"}
    /\ entry_mode = EntryMode_default
    /\ display_mode = DisplayMode_default
    /\ fut = <<>>
    /\ op = [name |-> "none", arg |-> <<>>]
    /\ ret = "none"
    /\ log = <<>>
    /\ prev = NoEvent
    /\ sent = NoneSent

\* bus.write(byte, data) is called
transmit(byte, data) ==
    /\ op.name = "none"
    /\ bus # "none"
    /\ op' = [name |-> "transmit", arg |-> [byte |-> byte, data |-> data]]
    /\ fut' = IF bus = "EightBitBus" THEN EightBitBus_write(byte, data)
              ELSE FourBitBus_write(byte, data)
    /\ ret' = "pending"
    /\ log' = <<>>
    /\ UNCHANGED <<status, bus, entry_mode, display_mode, prev, sent>>

\* The pin takes the level
PinSetOk ==
    /\ fut # <<>>
    /\ Head(fut).k = "pin"
    /\ log' = Append(log, PinEvent(Head(fut), TRUE))
    /\ Finish(Tail(fut))
    /\ UNCHANGED <<bus, entry_mode, display_mode, op, prev, sent>>

\* The pin operation fails: the write returns the failure at once and
\* leaves the pins as they are.
PinSetErr ==
    /\ fut # <<>>
    /\ Head(fut).k = "pin"
    /\ log' = Append(log, PinEvent(Head(fut), FALSE))
    /\ fut' = <<>>
    /\ ret' = "Err"
    /\ UNCHANGED <<status, bus, entry_mode, display_mode, op, prev, sent>>

NextBus ==
    \/ \E byte \in AllBytes, data \in Bools : transmit(byte, data)
    \/ PinSetOk
    \/ PinSetErr

SpecBus == InitBus /\ [][NextBus]_vars

\* ============================================================ properties
IsWrite(e) == e.k = "write"
Writes(events) == SelectSeq(events, IsWrite)
Cmd(byte) == [k |-> "write", byte |-> byte, data |-> FALSE, ok |-> TRUE]
Data(byte) == [k |-> "write", byte |-> byte, data |-> TRUE, ok |-> TRUE]
Constructors == {"new_8bit", "new_4bit"}
Returned(name) == op.name = name /\ ret = "Ok"

\* s is the first Len(s) entries of t, when only the last entry of s may
\* differ from t in having failed.
Attempt(e) == [k |-> "write", byte |-> e.byte, data |-> e.data, ok |-> TRUE]
IsAttemptOf(s, t) ==
    /\ Len(s) <= Len(t)
    /\ \A i \in 1..Len(s) : Attempt(s[i]) = t[i] /\ (i < Len(s) => s[i].ok)

\* ------------------------------------------------------------------- C1
Init8Fixed == << Cmd(48), Cmd(56), Cmd(14), Cmd(1), Cmd(7) >>

\* C1 as stated: a successful new_8bit has made exactly the five command
\* writes 0x30, 0x38, 0x0E, 0x01, 0x07 and no other.
C1_FiveWrites ==
    Returned("new_8bit") => Writes(log) = Init8Fixed

\* C1, amended: new_8bit makes six command writes, 0x30, 0x38, 0x0E, 0x01,
\* 0x07 and then the encoded stored entry mode, in this order and no other;
\* all six have been made when it returns Ok.
C1_Init8Sequence ==
    op.name = "new_8bit" =>
        LET expected == Append(Init8Fixed, Cmd(EntryMode_as_byte(entry_mode)))
        IN  /\ IsAttemptOf(Writes(log), expected)
            /\ ret = "Ok" => Writes(log) = expected

C1_Reached ==
    /\ Returned("new_8bit")
    /\ status = "ready"
    /\ Len(Writes(log)) = 6

\* ------------------------------------------------------------------- C2
\* C2: new_4bit makes the command writes 0x33, 0x32, 0x28, 0x0E, 0x01, the
\* encoded stored entry mode and 0x80, in this order and no other; all
\* seven have been made when it returns Ok, 0x80 last.
C2_Init4Sequence ==
    op.name = "new_4bit" =>
        LET expected == << Cmd(51), Cmd(50), Cmd(40), Cmd(14), Cmd(1),
                           Cmd(EntryMode_as_byte(entry_mode)), Cmd(128) >>
        IN  /\ IsAttemptOf(Writes(log), expected)
            /\ ret = "Ok" => Writes(log) = expected /\ Last(Writes(log)) = Cmd(128)

C2_Reached ==
    /\ Returned("new_4bit")
    /\ status = "ready"
    /\ Last(Writes(log)).byte = 128

\* ------------------------------------------------------------------- C3
NumWrites(steps) == Len(SelectSeq(steps, IsWrite))

\* C3 as stated: a successful new_4bit has made exactly six command writes,
\* one more than init_8bit makes.
C3_SixWrites ==
    Returned("new_4bit") =>
        /\ Len(Writes(log)) = 6
        /\ Len(Writes(log)) = NumWrites(init_8bit(entry_mode)) + 1

\* C3, amended: a successful new_4bit has made exactly seven command
\* writes, a successful new_8bit exactly six: the 4-bit initialization
\* makes exactly one more.
C3_OneMoreWrite ==
    /\ Returned("new_4bit") =>
        /\ Len(Writes(log)) = 7
        /\ Len(Writes(log)) = NumWrites(init_8bit(entry_mode)) + 1
        /\ \A i \in 1..7 : Writes(log)[i].ok /\ ~Writes(log)[i].data
    /\ Returned("new_8bit") =>
        /\ Len(Writes(log)) = 6
        /\ Len(Writes(log)) + 1 = NumWrites(init_4bit(entry_mode))
        /\ \A i \in 1..6 : Writes(log)[i].ok /\ ~Writes(log)[i].data

C3_Reached ==
    /\ Returned("new_4bit")
    /\ bus = "FourBitBus"
    /\ Len(Writes(log)) = 7

\* ------------------------------------------------------------------- C4
\* The wait that has to precede the n-th write of an initialization.
WaitBefore(n) ==
    IF n = 1 THEN from_millis(15) ELSE IF n = 2 THEN from_millis(5) ELSE from_us(100)

\* C4: during either initialization the event just before the n-th write
\* is a completed wait of 15 ms (n = 1), 5 ms (n = 2) or 100 us (n > 2),
\* which for n > 1 comes right after the previous write; and when the
\* initialization returns Ok its last event is a 100 us wait that comes
\* right after the last write.
C4_InitDelays ==
    op.name \in Constructors =>
        /\ \A i \in 1..Len(log) :
              log[i].k = "write" =>
                  LET n == Len(Writes(SubSeq(log, 1, i)))
                  IN  /\ i > 1
                      /\ log[i - 1] = [k |-> "delay", us |-> WaitBefore(n)]
                      /\ n > 1 => log[i - 2].k = "write" /\ log[i - 2].ok
        /\ ret = "Ok" =>
              /\ Len(log) >= 2
              /\ Last(log) = [k |-> "delay", us |-> from_us(100)]
              /\ log[Len(log) - 1].k = "write"

C4_Reached ==
    /\ op.name \in Constructors
    /\ ret = "Ok"
    /\ Len(log) >= 13
    /\ log[1].us = 15000 /\ log[3].us = 5000 /\ log[5].us = 100

\* ------------------------------------------------------------------- C5
\* C5 as stated: in a successful initialization the display control byte
\* (0x0E) is written before clear (0x01), clear before return home (0x02),
\* return home before the entry mode byte, and the entry mode byte is the
\* last write.
C5_InitStateOrder ==
    (op.name \in Constructors /\ ret = "Ok") =>
        LET w == Writes(log)
        IN  \E i, j, k, l \in 1..Len(w) :
                /\ i < j /\ j < k /\ k < l
                /\ w[i] = Cmd(14)
                /\ w[j] = Cmd(1)
                /\ w[k] = Cmd(2)
                /\ w[l] = Cmd(EntryMode_as_byte(entry_mode))
                /\ l = Len(w)
\* ------------------------------------------------------------------- C6
\* The log of a future that passed every one of its suspension points.
RECURSIVE AllDone(_)
AllDone(steps) ==
    IF steps = <<>> THEN <<>>
    ELSE << IF Head(steps).k = "write" THEN Sent(Head(steps), TRUE) ELSE Waited(Head(steps)) >>
         \o AllDone(Tail(steps))

InitOf(name, em) == IF name = "new_8bit" THEN init_8bit(em) ELSE init_4bit(em)

C6_HandedBack ==
    /\ status = "ready" => op.name # "none"
    /\ status # "ready" => op.name \in Constructors \cup {"none"}
    /\ (status = "ready" /\ op.name \in Constructors) =>
          /\ ret = "Ok"
          /\ fut = <<>>
          /\ log = AllDone(InitOf(op.name, entry_mode))

C6_Failed ==
    (op.name \in Constructors /\ (ret = "Err" \/ \E i \in 1..Len(log) : ~IsDone(log[i]))) =>
        LET whole == AllDone(InitOf(op.name, entry_mode))
        IN  /\ ret = "Err"
            /\ status = "dropped"
            /\ fut = <<>>
            /\ Len(log) <= Len(whole)
            /\ ~IsDone(Last(log))
            /\ \A i \in 1..(Len(log) - 1) : log[i] = whole[i]

\* C6: a constructor hands back a controller only by returning Ok after
\* every write and wait of its initialization has completed; when a write
\* of the initialization fails the constructor returns Err, no controller
\* exists, the failed write is the last thing done and nothing is written
\* afterwards.
C6_ConstructorAllOrNothing ==
    /\ [](C6_HandedBack /\ C6_Failed)
    /\ [][ /\ status # "dropped"
           /\ status' = "ready" =>
                 \/ status = "ready"
                 \/ status = "constructing" /\ ret' = "Ok" /\ fut' = <<>> ]_vars

C6_Reached ==
    /\ op.name = "new_4bit"
    /\ status = "dropped"
    /\ ret = "Err"
    /\ Len(Writes(log)) = 3

\* ------------------------------------------------------------------- C7
StoredByte ==
    IF op.name \in EntryMutators THEN EntryMode_as_byte(entry_mode)
    ELSE DisplayMode_as_byte(display_mode)

\* The argument of the mutator in flight is what the structure now stores.
ArgStored ==
    CASE op.name = "set_display_mode" -> display_mode = op.arg
      [] op.name = "set_autoscroll" -> (entry_mode.shift_mode = "Enabled") = op.arg
      [] op.name = "set_cursor_visibility" -> display_mode.cursor_visibility = op.arg
      [] op.name = "set_display" -> display_mode.display = op.arg
      [] op.name = "set_cursor_blink" -> display_mode.cursor_blink = op.arg
      [] op.name = "set_cursor_mode" -> entry_mode.cursor_mode = op.arg

\* C7: a call of a mutator of the entry mode or the display mode makes
\* exactly one bus write; it is a command write (is_data = false) whose byte
\* is the encoding of the whole structure as stored after the mutation.
C7_MutatorSendsWholeMode ==
    op.name \in EntryMutators \cup DisplayMutators =>
        LET w == Writes(log)
        IN  /\ ArgStored
            /\ Len(w) + NumWrites(fut) <= 1
            /\ Len(w) = 0 => ret = "pending" /\ Head(fut) = BusWrite(StoredByte, FALSE)
            /\ Len(w) = 1 => w[1].byte = StoredByte /\ ~w[1].data

\* set_cursor_blink returned after an earlier call had switched the display
\* off and another the cursor direction: the byte carries all of it.
C7_Reached ==
    /\ Returned("set_cursor_blink")
    /\ op.arg = "Off"
    /\ display_mode.display = "Off"
    /\ display_mode.cursor_visibility = "Visible"
    /\ Writes(log) = << Cmd(DisplayMode_as_byte(
           [display |-> "Off", cursor_visibility |-> "Visible", cursor_blink |-> "Off"])) >>

\* ------------------------------------------------------------------- C8
SliceOf == IF op.name = "write_str" THEN as_bytes(op.arg) ELSE op.arg

\* C8: write_bytes and write_str make one data write (is_data = true) per
\* byte of the input, in input order: the i-th write carries the i-th byte,
\* and a call that returned Ok has written every byte; write_str("AB")
\* writes 'A' and then 'B'.
C8_WriteBytesInOrder ==
    /\ op.name \in {"write_bytes", "write_str"} =>
          LET w == Writes(log)
          IN  /\ Len(w) <= Len(SliceOf)
              /\ \A i \in 1..Len(w) : w[i].byte = SliceOf[i] /\ w[i].data
              /\ ret = "Ok" => Len(w) = Len(SliceOf) /\ \A i \in 1..Len(w) : w[i].ok
    /\ (Returned("write_str") /\ op.arg = <<65, 66>>) =>
          Writes(log) = << Data(65), Data(66) >>

C8_Reached ==
    /\ Returned("write_str")
    /\ op.arg = <<65, 66>>
    /\ Len(log) = 4

\* ------------------------------------------------------------------- C9
\* C9: when a write fails during write_bytes (or write_str), it is the last
\* write the call makes: the bytes before it have been written, in order,
\* no later byte is written, nothing is left to run and the call returns
\* Err.
C9_WriteBytesAbort ==
    op.name \in {"write_bytes", "write_str"} =>
        LET w == Writes(log)
        IN  /\ \A i \in 1..Len(w) :
                  ~w[i].ok =>
                      /\ i = Len(w)
                      /\ ret = "Err"
                      /\ fut = <<>>
                      /\ w[i].byte = SliceOf[i]
                      /\ \A j \in 1..(i - 1) : w[j] = Data(SliceOf[j])
            /\ ret = "Err" => Len(w) >= 1 /\ ~w[Len(w)].ok

\* The second of two bytes failed.
C9_Reached ==
    /\ op.name = "write_bytes"
    /\ ret = "Err"
    /\ Len(op.arg) = 2
    /\ Len(Writes(log)) = 2
    /\ Writes(log)[1].ok

\* ------------------------------------------------------------------ C10
Settle == [k |-> "delay", us |-> from_us(100)]
IsSent(e) == e.k = "write" /\ e.ok
History == (IF prev = NoEvent THEN <<>> ELSE <<prev>>) \o Completed(log)

\* C10: in a call on a ready controller every successful write is followed
\* at once by the 100 us wait, which the call awaits before it returns; and
\* over the life of the controller a wait of at least 100 us completes
\* between any successful write and the next one.
C10_SettleDelay ==
    /\ op.name \notin Constructors \cup {"none"} =>
          \A i \in 1..Len(log) :
              IsSent(log[i]) =>
                  IF i < Len(log) THEN log[i + 1] = Settle
                  ELSE ret = "pending" /\ Head(fut) = TimerAfter(from_us(100))
    /\ \A i \in 1..Len(History) :
          IsSent(History[i]) =>
              IF i < Len(History)
              THEN History[i + 1].k = "delay" /\ History[i + 1].us >= from_us(100)
              ELSE ret = "pending"

\* A call that began after an earlier one's settle wait and has itself
\* written two bytes.
C10_Reached ==
    /\ op.name = "write_bytes"
    /\ ret = "Ok"
    /\ prev = Settle
    /\ Len(log) = 4
    /\ IsSent(log[1]) /\ IsSent(log[3])
\* ------------------------------------------------------------------ C11
\* The call in flight makes one bus write and no other, a command write of
\* byte b; only that write can make it fail.
OneCommand(b) ==
    LET w == Writes(log)
    IN  /\ Len(w) + NumWrites(fut) = 1
        /\ Len(w) = 0 => ret = "pending" /\ Head(fut) = BusWrite(b, FALSE)
        /\ Len(w) = 1 => w[1].byte = b /\ ~w[1].data
        /\ ret = "Ok" => Len(w) = 1 /\ w[1].ok
        /\ ret = "Err" => Len(w) = 1 /\ ~w[1].ok

\* C11: for every position p in 0..255, set_cursor_pos(p) makes exactly one
\* command write, of the byte 128 + (p mod 128), that is 0b1000_0000 |
\* (p & 0b0111_1111); 200 and 72 both give 200; the call fails only if
\* that write fails.
C11_CursorPosByte ==
    op.name = "set_cursor_pos" =>
        /\ OneCommand(128 + (op.arg % 128))
        /\ op.arg \in {72, 200} => OneCommand(200)

C11_Reached ==
    /\ Returned("set_cursor_pos")
    /\ op.arg = 200
    /\ Writes(log) = << Cmd(200) >>

\* ------------------------------------------------------------------ C12
\* C12: shift_cursor writes 0b0001_0100 for Right and 0b0001_0000 for Left,
\* shift_display 0b0001_1100 for Right and 0b0001_1000 for Left, each as
\* the one command write of the call.
C12_ShiftBytes ==
    /\ op.name = "shift_cursor" => OneCommand(IF op.arg = "Right" THEN 20 ELSE 16)
    /\ op.name = "shift_display" => OneCommand(IF op.arg = "Right" THEN 28 ELSE 24)

C12_Reached ==
    /\ Returned("shift_display")
    /\ op.arg = "Right"
    /\ Writes(log) = << Cmd(28) >>

\* ------------------------------------------------------------------ C13
\* C13: clear makes exactly one command write, of 0b0000_0001, and reset
\* exactly one, of 0b0000_0010.
C13_ClearResetBytes ==
    /\ op.name = "clear" => OneCommand(1)
    /\ op.name = "reset" => OneCommand(2)

C13_Reached ==
    /\ Returned("clear")
    /\ Writes(log) = << Cmd(1) >>
    /\ Len(log) = 2
\* ------------------------------------------------------------------ C17
IsFailed(e) == e.k = "write" /\ ~e.ok

\* C17: in any call, a bus write that failed is the last thing the call
\* did: it is not tried again, no wait follows it, no later write is made,
\* nothing is left to run and the call has returned Err; a call returns
\* Err only in this way, and after it the bus and the timer are not used
\* until the next call.
C17_FailStopsCall ==
    /\ [](/\ \A i \in 1..Len(log) :
                IsFailed(log[i]) => i = Len(log) /\ ret = "Err" /\ fut = <<>>
          /\ ret = "Err" =>
                /\ log # <<>>
                /\ IsFailed(Last(log))
                /\ Len(SelectSeq(log, IsFailed)) = 1)
    /\ [][ret = "Err" => log' = log \/ (log' = <<>> /\ Idle)]_vars

\* write_bytes(b"AB") whose second write failed, after one write and its wait.
C17_Reached ==
    /\ op.name = "write_bytes"
    /\ op.arg = <<65, 66>>
    /\ ret = "Err"
    /\ log = << Data(65), Settle, Sent(BusWrite(66, TRUE), FALSE) >>

\* ------------------------------------------------------------------ C18
FunctionSet == {48, 51, 50, 56, 40}

\* The bytes the caller handed to the write operation in flight.
PassedBytes ==
    CASE op.name = "write_byte" -> {op.arg}
      [] op.name = "write_char" -> {op.arg % 256}
      [] op.name \in {"write_bytes", "write_str"} -> {SliceOf[i] : i \in 1..Len(SliceOf)}
      [] OTHER -> {}

\* C18: a ready controller stays ready and is never constructed again; its
\* calls wait only 100 us at a time, never the 15 ms or 5 ms of the
\* initialization, and write a function-set byte (0x30, 0x33, 0x32, 0x38,
\* 0x28) only as a data byte the caller passed to a write operation.
C18_NoReinit ==
    /\ [](op.name \notin Constructors \cup {"none"} =>
             /\ status = "ready"
             /\ \A i \in 1..Len(log) :
                   /\ log[i].k = "delay" => log[i].us = from_us(100)
                   /\ (log[i].k = "write" /\ log[i].byte \in FunctionSet) =>
                         log[i].data /\ log[i].byte \in PassedBytes
             /\ \A i \in 1..Len(fut) :
                   /\ fut[i].k = "delay" => fut[i].us = from_us(100)
                   /\ (fut[i].k = "write" /\ fut[i].byte \in FunctionSet) => fut[i].data)
    /\ [][status = "ready" => status' = "ready" /\ op'.name \notin Constructors]_vars

\* The caller wrote 0x30 as data.
C18_Reached ==
    /\ Returned("write_byte")
    /\ op.arg = 48
    /\ log = << Data(48), Settle >>

\* ------------------------------------------------------------------ C19
\* The step starts a call on the ready controller.
CallStarts == Idle /\ (op' # op \/ ret' = "pending" \/ log' # log)

\* C19: a step that starts set_autoscroll changes only shift_mode, one that
\* starts set_cursor_mode only cursor_mode, one that starts
\* set_cursor_visibility, set_display or set_cursor_blink only its own
\* display-mode field, one that starts set_display_mode only the display
\* mode; a step that starts any other call, and every later step of any
\* call, whether its bus write succeeds or fails, leaves the entry mode
\* and the display mode as they are.
C19_Frame ==
    [][ /\ ~CallStarts => entry_mode' = entry_mode /\ display_mode' = display_mode
        /\ CallStarts =>
              CASE op'.name = "set_autoscroll" ->
                      /\ entry_mode' = [entry_mode EXCEPT !.shift_mode = entry_mode'.shift_mode]
                      /\ display_mode' = display_mode
                [] op'.name = "set_cursor_mode" ->
                      /\ entry_mode' = [entry_mode EXCEPT !.cursor_mode = entry_mode'.cursor_mode]
                      /\ display_mode' = display_mode
                [] op'.name = "set_cursor_visibility" ->
                      /\ display_mode' = [display_mode EXCEPT
                                            !.cursor_visibility = display_mode'.cursor_visibility]
                      /\ entry_mode' = entry_mode
                [] op'.name = "set_display" ->
                      /\ display_mode' = [display_mode EXCEPT !.display = display_mode'.display]
                      /\ entry_mode' = entry_mode
                [] op'.name = "set_cursor_blink" ->
                      /\ display_mode' = [display_mode EXCEPT
                                            !.cursor_blink = display_mode'.cursor_blink]
                      /\ entry_mode' = entry_mode
                [] op'.name = "set_display_mode" -> entry_mode' = entry_mode
                [] OTHER -> entry_mode' = entry_mode /\ display_mode' = display_mode
      ]_vars

\* set_cursor_mode(Left) failed on a controller whose autoscroll an earlier
\* call had enabled: the direction is stored, the autoscroll kept.
C19_Reached ==
    /\ op.name = "set_cursor_mode"
    /\ op.arg = "Left"
    /\ ret = "Err"
    /\ entry_mode = [cursor_mode |-> "Left", shift_mode |-> "Enabled"]
    /\ display_mode # DisplayMode_default

\* ------------------------------------------------------------------ C20
\* C20: write_char(c) makes exactly one bus write, a data write of the code
\* point of c modulo 256; and write_str of a string whose characters are
\* all below 128 writes, in order, the very bytes write_char writes for
\* each of its characters.
C20_WriteCharByte ==
    /\ op.name = "write_char" =>
          LET w == Writes(log)
          IN  /\ Len(w) + NumWrites(fut) = 1
              /\ Len(w) = 0 => ret = "pending" /\ Head(fut) = BusWrite(op.arg % 256, TRUE)
              /\ Len(w) = 1 => w[1].byte = op.arg % 256 /\ w[1].data
              /\ ret = "Ok" => w = << Data(op.arg % 256) >>
    /\ (Returned("write_str") /\ \A i \in 1..Len(op.arg) : op.arg[i] < 128) =>
          Writes(log) = [i \in 1..Len(op.arg) |-> Data(op.arg[i] % 256)]

\* write_char('\u{20AC}') wrote 0xAC.
C20_Reached ==
    /\ Returned("write_char")
    /\ op.arg = 8364
    /\ log = << Data(172), Settle >>
\* ------------------------------------------------------------ C14, C15
\* The level the pin was last set to within events; "unknown" if it was
\* not set.
PinLevel(pin, events) ==
    LET set == {i \in 1..Len(events) : events[i].pin = pin /\ events[i].ok}
    IN  IF set = {} THEN "unknown"
        ELSE events[CHOOSE i \in set : \A j \in set : j <= i].level

LevelAt(pin, i) == PinLevel(pin, SubSeq(log, 1, i))

\* Enable falls at event i after having been active: the chip latches.
IsPulseEnd(i) ==
    /\ log[i] = [k |-> "pin", pin |-> "en", level |-> FALSE, ok |-> TRUE]
    /\ LevelAt("en", i - 1) = TRUE

PulseEnds == {i \in 1..Len(log) : IsPulseEnd(i)}

\* The event at which enable rose for the pulse that ends at i.
PulseStart(i) ==
    CHOOSE r \in 1..i : log[r].pin = "en" /\ log[r].level /\ \A j \in (r + 1)..(i - 1) : log[j].pin # "en"

EnableEvents == {i \in 1..Len(log) : log[i].pin = "en"}

\* bit i of b, by division
BitOf(b, i) == (b \div Pow2(i)) % 2 = 1

\* C14: a four-bit write of byte B with flag F that returned Ok has pulsed
\* enable exactly twice; register-select is F from the first rise of enable
\* to the second fall and is set nowhere in between; while enable is active
\* the first time D4..D7 carry bits 4..7 of B, the second time bits 0..3.
\* A write that has not returned Ok has pulsed at most twice.
C14_FourBitTransactions ==
    (op.name = "transmit" /\ bus = "FourBitBus") =>
        /\ Cardinality(PulseEnds) <= 2
        /\ ret = "Ok" =>
              /\ Cardinality(PulseEnds) = 2
              /\ Cardinality(EnableEvents) = 4
              /\ LET e1 == CHOOSE i \in PulseEnds : \A j \in PulseEnds : i <= j
                     e2 == CHOOSE i \in PulseEnds : \A j \in PulseEnds : j <= i
                 IN  /\ \A j \in PulseStart(e1)..e2 :
                            LevelAt("rs", j) = op.arg.data /\ log[j].pin # "rs"
                     /\ \A j \in PulseStart(e1)..e1 : \A n \in 0..3 :
                            LevelAt(D(4 + n), j) = BitOf(op.arg.byte, 4 + n)
                     /\ \A j \in PulseStart(e2)..e2 : \A n \in 0..3 :
                            LevelAt(D(4 + n), j) = BitOf(op.arg.byte, n)

\* 0xA5 written as data: 0b1010 latched, then 0b0101.
C14_Reached ==
    /\ op.name = "transmit"
    /\ bus = "FourBitBus"
    /\ ret = "Ok"
    /\ op.arg = [byte |-> 165, data |-> TRUE]
    /\ Cardinality(PulseEnds) = 2
    /\ LevelAt("d4", Len(log)) = TRUE /\ LevelAt("d5", Len(log)) = FALSE

\* C15: an eight-bit write of byte B with flag F that returned Ok has
\* pulsed enable exactly once, by one set-active and one set-inactive;
\* while enable is active register-select is F and Di carries bit i of B
\* for i in 0..7; and every data line and register-select was set before
\* enable rose.  A write that has not returned Ok has pulsed at most once.
C15_EightBitTransaction ==
    (op.name = "transmit" /\ bus = "EightBitBus") =>
        /\ Cardinality(PulseEnds) <= 1
        /\ ret = "Ok" =>
              /\ Cardinality(PulseEnds) = 1
              /\ Cardinality(EnableEvents) = 2
              /\ LET e == CHOOSE i \in PulseEnds : TRUE
                 IN  /\ \A j \in PulseStart(e)..e :
                            /\ LevelAt("rs", j) = op.arg.data
                            /\ \A n \in 0..7 : LevelAt(D(n), j) = BitOf(op.arg.byte, n)
                     /\ \A j \in PulseStart(e)..Len(log) : log[j].pin = "en"
                     /\ \A n \in 0..7 : \E j \in 1..(PulseStart(e) - 1) : log[j].pin = D(n)
                     /\ \E j \in 1..(PulseStart(e) - 1) : log[j].pin = "rs"

\* 0x38 written as a command.
C15_Reached ==
    /\ op.name = "transmit"
    /\ bus = "EightBitBus"
    /\ ret = "Ok"
    /\ op.arg = [byte |-> 56, data |-> FALSE]
    /\ Cardinality(PulseEnds) = 1
    /\ LevelAt("d3", Len(log)) = TRUE /\ LevelAt("d0", Len(log)) = FALSE
\* ------------------------------------------------------------------ C16
\* No call is in flight on the ready controller.
BetweenCalls == status = "ready" /\ ret # "pending"

====
